---- MODULE Spec2Model ----
(***************************************************************************)
(* Model of cpp-service/main.cpp: the LSB watermark codec (textToBinary,   *)
(* binaryToText, sanitizeString, processWatermark, processVerify), the     *)
(* forensics operation and the /process and /verify request handlers.      *)
(*                                                                         *)
(* Strings are sequences of byte values 0..255; a `char` read from a       *)
(* string is signed or unsigned depending on the build (charSigned).       *)
(* A binary string is a sequence of the characters "0" and "1".            *)
(* A cv::Mat is a record [rows, cols, data], data mapping <<i, j>> to a    *)
(* Vec3b <<blue, green, red>>; the empty Mat has rows = cols = 0.          *)
(* Files hold rasters (a lossless container); an unreadable or missing     *)
(* file decodes to the empty Mat, as imread does.                          *)
(*                                                                         *)
(* One handler invocation is in progress at a time: the pool's threads     *)
(* share nothing but the files and the metrics.  Of the metrics, the gauge *)
(* and the two request counters are modelled; the counters and the         *)
(* histogram that are only ever written (processed_images,                 *)
(* watermark_calls, forensics_calls, request_duration) are left out.       *)
(***************************************************************************)
EXTENDS Integers, Sequences, FiniteSets, TLC

\* ------------------------------------------------------------------------
\* Bounds of the model
\* ------------------------------------------------------------------------
\* The number of /process requests in a behaviour (/verify requests are not
\* limited: they leave the files alone).
MaxRequests == 1

\* ------------------------------------------------------------------------
\* Program constants
\* ------------------------------------------------------------------------
MAGIC_HEADER == <<35, 73, 83, 35>>          \* "#IS#"

MaxTextLen == 255

DefaultWatermark == <<67, 79, 80, 89, 82, 73, 71, 72, 84, 45, 67, 72, 69, 67, 75>>  \* "COPYRIGHT-CHECK"

Placeholder == 63                           \* '?'

\* ------------------------------------------------------------------------
\* Characters and bits
\* ------------------------------------------------------------------------
\* The value of a `char` holding byte b: negative for b >= 128 where char is signed.
ToChar(signed, b) == IF signed /\ b >= 128 THEN b - 256 ELSE b

\* (char)v for an int v in 0..255, stored back as the byte of the string.
ToByte(c) == c % 256

Pow2(i) == CASE i = 0 -> 1 [] i = 1 -> 2 [] i = 2 -> 4 [] i = 3 -> 8
             [] i = 4 -> 16 [] i = 5 -> 32 [] i = 6 -> 64 [] i = 7 -> 128

\* (v >> i) & 1 for an int v (arithmetic shift: floor division).
ShiftBit(v, i) == (v \div Pow2(i)) % 2

\* Bits taken least significant first.
BitCharLsbFirst(v, i) == IF ShiftBit(v, 7 - i) = 1 THEN "1" ELSE "0"

\* The character '1' or '0' for bit i of v.
BitChar(v, i) == IF ShiftBit(v, i) = 1 THEN "1" ELSE "0"

\* ------------------------------------------------------------------------
\* sanitizeString, textToBinary, binaryToText
\* ------------------------------------------------------------------------
\* Only the lower limit of the printable range tested.
sanitizeNoUpperBound(signed, input) ==
    [k \in 1..Len(input) |->
        LET c == ToChar(signed, input[k])
        IN  IF c >= 32 THEN input[k] ELSE Placeholder]

sanitizeString(signed, input) ==
    [k \in 1..Len(input) |->
        LET c == ToChar(signed, input[k])
        IN  IF c >= 32 /\ c <= 126 THEN input[k] ELSE Placeholder]

\* Position n of the result is bit 7 - ((n - 1) % 8) of the length (n <= 8) or of
\* character (n - 9) \div 8 of the text: the order in which lines 59-68 append them.
textToBinary(signed, text) ==
    IF Len(text) = 0 \/ Len(text) > MaxTextLen
    THEN <<>>
    ELSE LET len == Len(text)
         IN  [n \in 1..(8 + 8 * len) |->
                 IF n <= 8
                 THEN BitChar(len, 8 - n)
                 ELSE BitChar(ToChar(signed, text[((n - 9) \div 8) + 1]), 7 - ((n - 9) % 8))]

\* The integer whose 8 bits, most significant first, are bits[from+1 .. from+8];
\* a position past the end of bits counts as not '1'.
DecodeByte(bits, from) ==
    LET B(j) == IF from + j + 1 <= Len(bits) /\ bits[from + j + 1] = "1"
                THEN Pow2(7 - j) ELSE 0
    IN  B(0) + B(1) + B(2) + B(3) + B(4) + B(5) + B(6) + B(7)

\* Returns [text, confidence]; confidence in hundredths.
binaryToText(binaryStr) ==
    IF Len(binaryStr) < 8
    THEN [text |-> <<>>, confidence |-> 0]
    ELSE LET len == DecodeByte(binaryStr, 0)
         IN  IF len = 0 \/ (8 + len * 8) > Len(binaryStr)
             THEN [text |-> <<>>, confidence |-> 0]
             ELSE [text |-> [i \in 1..len |-> ToByte(DecodeByte(binaryStr, 8 + (i - 1) * 8))],
                   confidence |-> 99]

\* ------------------------------------------------------------------------
\* Rasters (cv::Mat of Vec3b) and paths
\* ------------------------------------------------------------------------
EmptyMat == [rows |-> 0, cols |-> 0, data |-> <<>>]

Coords(rows, cols) == (0..(rows - 1)) \X (0..(cols - 1))

\* pixel[0] & 0x01
Lsb(pixel) == pixel[1] % 2

\* (blue & 0xFE) | (bit == '1' ? 0x01 : 0x00)
SetLsb(blue, bit) == (blue - (blue % 2)) + (IF bit = "1" THEN 1 ELSE 0)

\* A Mat assignment in place of clone(): the header shares the source's buffer.
MatShare(srcBuf) == srcBuf

\* Mat::clone(): the buffer the copy lives in, given the source's buffer.
MatClone(srcBuf) == "copy"

PreviewSuffix == <<"_", "p", "r", "e", "v", "i", "e", "w", ".", "p", "n", "g">>

\* find_last_of('.'): the 1-based position of the last '.', 0 when there is none.
FindLastDot(path) ==
    LET dots == {k \in 1..Len(path) : path[k] = "."}
    IN  IF dots = {} THEN 0 ELSE CHOOSE k \in dots : \A m \in dots : m <= k

\* outputPath.substr(0, outputPath.find_last_of('.')) + "_preview.png"
PreviewPathOf(path) ==
    (IF FindLastDot(path) = 0 THEN path ELSE SubSeq(path, 1, FindLastDot(path) - 1))
    \o PreviewSuffix

\* ------------------------------------------------------------------------
\* processWatermark: the embedding loop (lines 127-143)
\* ------------------------------------------------------------------------
\* st = [mat, bitIndex, done]; done records the goto embedding_done.
\* The inner loop over j in row i:
RECURSIVE EmbedRow(_, _, _, _)
EmbedRow(st, bits, i, j) ==
    IF j >= st.mat.cols THEN st
    ELSE IF st.bitIndex < Len(bits)
         THEN EmbedRow([mat      |-> [st.mat EXCEPT !.data[<<i, j>>][1] =
                                          SetLsb(@, bits[st.bitIndex + 1])],
                        bitIndex |-> st.bitIndex + 1,
                        done     |-> FALSE],
                       bits, i, j + 1)
         ELSE [st EXCEPT !.done = TRUE]

\* The outer loop over i:
RECURSIVE EmbedRows(_, _, _)
EmbedRows(st, bits, i) ==
    IF st.done \/ i >= st.mat.rows THEN st
    ELSE EmbedRows(EmbedRow(st, bits, i, 0), bits, i + 1)

EmbedLoop(mat, bits) ==
    EmbedRows([mat |-> mat, bitIndex |-> 0, done |-> FALSE], bits, 0).mat

\* The capacity test with >= for >.
TooSmallOffByOne(watermarkLen, img) == watermarkLen >= (img.rows * img.cols)

\* The capacity test of line 121.
TooSmall(watermarkLen, img) == watermarkLen > (img.rows * img.cols)

\* Lines 115-143 on a decoded, non-empty img: the framed bitstream, the two
\* validity tests and the embedding into the clone.  mem maps each pixel
\* buffer to its Mat; img lives in "orig".
EmbedInMemory(signed, img, watermarkText) ==
    LET fullPayload     == MAGIC_HEADER \o watermarkText
        binaryWatermark == textToBinary(signed, fullPayload)
        watermarkLen    == Len(binaryWatermark)
        buf             == MatClone("orig")
        mem0            == [b \in {"orig", "copy"} |-> IF b = "orig" THEN img ELSE EmptyMat]
        mem1            == [mem0 EXCEPT ![buf] = mem0["orig"]]
        mem2            == [mem1 EXCEPT ![buf] = EmbedLoop(mem1[buf], binaryWatermark)]
    IN  IF watermarkLen = 0
        THEN [error |-> "invalid watermark", bits |-> binaryWatermark,
              img |-> img, watermarked_full |-> EmptyMat]
        ELSE IF TooSmall(watermarkLen, img)
        THEN [error |-> "image too small", bits |-> binaryWatermark,
              img |-> img, watermarked_full |-> EmptyMat]
        ELSE [error |-> "", bits |-> binaryWatermark,
              img |-> mem2["orig"], watermarked_full |-> mem2[buf]]

\* ------------------------------------------------------------------------
\* processVerify (lines 201-260) on a decoded, non-empty img
\* ------------------------------------------------------------------------
\* acc = [bits, bitIndex, reads, done]: the bit string being built, bitIndex,
\* the pixels read so far (in order) and whether the goto was taken.
ReadPixel(img, i, j, acc, limit) ==
    LET bitIndex == acc.bitIndex + 1
    IN  [bits     |-> Append(acc.bits, IF Lsb(img.data[<<i, j>>]) = 1 THEN "1" ELSE "0"),
         bitIndex |-> bitIndex,
         reads    |-> Append(acc.reads, <<i, j>>),
         done     |-> bitIndex >= limit]

\* Loop 1 (lines 207-214), inner and outer loop.
RECURSIVE LengthRow(_, _, _, _)
LengthRow(img, i, j, acc) ==
    IF acc.done \/ j >= img.cols THEN acc
    ELSE LengthRow(img, i, j + 1, ReadPixel(img, i, j, acc, 8))

RECURSIVE LengthRows(_, _, _)
LengthRows(img, i, acc) ==
    IF acc.done \/ i >= img.rows THEN acc
    ELSE LengthRows(img, i + 1, LengthRow(img, i, 0, acc))

\* Loop 2 (lines 235-243), inner and outer loop.
RECURSIVE DataRow(_, _, _, _, _)
DataRow(img, totalBits, i, j, acc) ==
    IF acc.done \/ j >= img.cols THEN acc
    ELSE IF i * img.cols + j < 8 THEN DataRow(img, totalBits, i, j + 1, acc)
    ELSE DataRow(img, totalBits, i, j + 1, ReadPixel(img, i, j, acc, totalBits))

RECURSIVE DataRows(_, _, _, _)
DataRows(img, totalBits, i, acc) ==
    IF acc.done \/ i >= img.rows THEN acc
    ELSE DataRows(img, totalBits, i + 1, DataRow(img, totalBits, i, 0, acc))

\* rawText.find(MAGIC_HEADER) != npos
ContainsHeader(rawText) ==
    \E k \in 0..(Len(rawText) - Len(MAGIC_HEADER)) :
        SubSeq(rawText, k + 1, k + Len(MAGIC_HEADER)) = MAGIC_HEADER

\* rawText.find(MAGIC_HEADER) == 0
StartsWithHeader(rawText) ==
    /\ Len(rawText) >= Len(MAGIC_HEADER)
    /\ SubSeq(rawText, 1, Len(MAGIC_HEADER)) = MAGIC_HEADER

\* The length test without the capacity half.
BadLengthZeroOnly(len, img) == len = 0

\* The test of line 223.
BadLength(len, img) == len = 0 \/ (8 + len * 8) > (img.rows * img.cols)

\* Returns [success, extractedText, confidenceScore, len, reads]:
\* the three response fields, the decoded length and the pixels read, in order.
ExtractFrom(signed, img) ==
    LET first == LengthRows(img, 0, [bits |-> <<>>, bitIndex |-> 0, reads |-> <<>>,
                                     done |-> FALSE])
        len   == DecodeByte(first.bits, 0)
    IN  IF BadLength(len, img)
        THEN [success |-> FALSE, extractedText |-> <<>>, confidenceScore |-> 0,
              len |-> len, reads |-> first.reads]
        ELSE LET all == DataRows(img, 8 + len * 8, 0,
                                 [bits |-> first.bits, bitIndex |-> 8, reads |-> first.reads,
                                  done |-> FALSE])
                 raw == binaryToText(all.bits)
             IN  IF StartsWithHeader(raw.text)
                 THEN [success |-> TRUE,
                       extractedText |-> sanitizeString(signed,
                            SubSeq(raw.text, Len(MAGIC_HEADER) + 1, Len(raw.text))),
                       confidenceScore |-> 99, len |-> len, reads |-> all.reads]
                 ELSE [success |-> FALSE, extractedText |-> <<>>, confidenceScore |-> 10,
                       len |-> len, reads |-> all.reads]

\* ------------------------------------------------------------------------
\* Inputs: image files, payloads, request bodies
\* ------------------------------------------------------------------------
PathA == <<"a", ".", "p", "n", "g">>

PathO == <<"o", ".", "p", "n", "g">>

InputPaths == {PathA, PathO}

OutputPaths == {PathO}

AllPaths == InputPaths \cup OutputPaths \cup {PreviewPathOf(p) : p \in OutputPaths}

\* A raster whose every pixel is px.
Flat(rows, cols, px) ==
    [rows |-> rows, cols |-> cols, data |-> [c \in Coords(rows, cols) |-> px]]

\* The bits of a length byte followed by the bytes of body, 8 per byte, MSB first.
RawBits(lenByte, body) ==
    LET B(v, k) == (v \div Pow2(8 - k)) % 2
    IN  [n \in 1..(8 + 8 * Len(body)) |->
            IF n <= 8 THEN B(lenByte, n)
            ELSE B(body[((n - 9) \div 8) + 1], ((n - 9) % 8) + 1)]

\* A raster of pixels px whose carrier LSBs, in row-major order, start with bits.
Carrier(rows, cols, px, bits) ==
    [rows |-> rows, cols |-> cols,
     data |-> [c \in Coords(rows, cols) |->
                 LET n == c[1] * cols + c[2] + 1
                 IN  IF n <= Len(bits)
                     THEN <<(px[1] - (px[1] % 2)) + bits[n], px[2], px[3]>>
                     ELSE px]]

\* The image files a request may name.
InputRasters ==
    { Flat(8, 8, <<255, 128, 7>>),                                   \* length prefix 255
      Flat(7, 9, <<254, 37, 200>>),                                  \* length prefix 0
      Flat(1, 5, <<1, 2, 3>>),                                       \* fewer than 8 pixels
      Flat(10, 16, <<100, 0, 255>>),                                 \* 160 pixels
      Flat(82, 25, <<1, 254, 3>>),                                   \* 2050 pixels, prefix 255
      Carrier(8, 8, <<77, 1, 2>>, RawBits(7, <<35, 73, 83, 35, 200, 10, 126>>)),
      Carrier(8, 8, <<77, 1, 2>>, RawBits(5, <<36, 35, 73, 83, 35>>)),
      Carrier(6, 8, <<6, 1, 2>>, RawBits(1, <<65>>)),
      Carrier(7, 9, <<9, 9, 9>>, RawBits(7, <<35, 73, 83, 35, 65, 66, 67>>)),
      Carrier(6, 8, <<255, 0, 0>>, RawBits(4, <<35, 73, 83, 35>>)),
      Carrier(6, 8, <<3, 3, 3>>, RawBits(5, <<35, 73, 83, 35, 0>>)) }

LongText(n) == [k \in 1..n |-> 65]

\* watermarkData values.
Payloads ==
    { <<>>, <<65>>, <<65, 66, 67>>, <<126, 32>>,
      LongText(MaxTextLen - Len(MAGIC_HEADER)),
      LongText(MaxTextLen - Len(MAGIC_HEADER) + 1) }

\* The watermarkData member of a request body: a string, or missing.
WatermarkData ==
    {[present |-> TRUE, value |-> t] : t \in Payloads} \cup {[present |-> FALSE, value |-> <<>>]}

\* body.value("watermarkData", dflt)
BodyValue(data, dflt) == IF data.present THEN data.value ELSE dflt

\* Whether imwrite(outputPath) and imwrite(previewPath) succeed; the second is
\* only attempted after the first succeeded.
WriteOutcomes == {<<FALSE, FALSE>>, <<TRUE, FALSE>>, <<TRUE, TRUE>>}

Algorithms == {"watermark", "forensics", "blur"}

\* ------------------------------------------------------------------------
\* State
\* ------------------------------------------------------------------------
VARIABLES
    charSigned,       \* whether `char` is signed in this build
    disk,             \* path -> raster held by the file (EmptyMat: unreadable)
    pc,               \* position of the handler invocation in progress ("idle": none)
    active_requests,  \* Gauge
    total_requests,   \* Counter
    failed_requests,  \* Counter
    last              \* the invocation's request, response and locals (Idle: none)

vars == <<charSigned, disk, pc, active_requests, total_requests, failed_requests, last>>

\* The record of one handler body: its request, the response it set and what it touched.
Done(endpoint, algorithm, inputPath, outputPath, text, status, resp, mats, reads, writes, ext) ==
    [endpoint |-> endpoint, algorithm |-> algorithm,
     inputPath |-> inputPath, outputPath |-> outputPath, watermarkText |-> text,
     status |-> status, resp |-> resp,
     decoded |-> mats.decoded, img |-> mats.img, watermarked_full |-> mats.watermarked_full,
     bits |-> mats.bits,
     imreads |-> reads, imwrites |-> writes,
     len |-> ext.len, pixelReads |-> ext.reads]

NoMats == [decoded |-> EmptyMat, img |-> EmptyMat, watermarked_full |-> EmptyMat, bits |-> <<>>]

NoExt == [len |-> 0, reads |-> <<>>]

\* json err = { {"success", false}, {"error", e.what()} }
ErrorResp(what) ==
    [success |-> FALSE, error |-> what, previewPath |-> <<>>, embeddedText |-> <<>>,
     algorithm |-> "", score |-> 0, riskLevel |-> "", extractedText |-> <<>>,
     confidenceScore |-> 0, keys |-> {"success", "error"}]

WatermarkResp(previewPath, text) ==
    [success |-> TRUE, error |-> "", previewPath |-> previewPath, embeddedText |-> text,
     algorithm |-> "LSB (Blue Channel + Header)", score |-> 0, riskLevel |-> "",
     extractedText |-> <<>>, confidenceScore |-> 0,
     keys |-> {"success", "previewPath", "embeddedText", "algorithm"}]

ForensicsResp(previewPath) ==
    [success |-> TRUE, error |-> "", previewPath |-> previewPath, embeddedText |-> <<>>,
     algorithm |-> "", score |-> 90, riskLevel |-> "Low",
     extractedText |-> <<>>, confidenceScore |-> 0,
     keys |-> {"success", "previewPath", "score", "riskLevel"}]

VerifyResp(x) ==
    [success |-> x.success, error |-> "", previewPath |-> <<>>, embeddedText |-> <<>>,
     algorithm |-> "", score |-> 0, riskLevel |-> "",
     extractedText |-> x.extractedText, confidenceScore |-> x.confidenceScore,
     keys |-> {"success", "extractedText", "confidenceScore"}]

Idle == Done("", "", <<>>, <<>>, <<>>, 0, ErrorResp(""), NoMats, {}, {}, NoExt)

Init ==
    /\ charSigned \in BOOLEAN
    /\ \E r \in InputRasters :
          disk = [p \in AllPaths |-> IF p = PathA THEN r ELSE EmptyMat]
    /\ pc = "idle"
    /\ active_requests = 0
    /\ total_requests = 0
    /\ failed_requests = 0
    /\ last = Idle

\* ------------------------------------------------------------------------
\* processWatermark, processForensics, processVerify against the file system
\* ------------------------------------------------------------------------
\* Each returns [disk, error, resp, mats, reads, writes, ext]: error is the
\* what() of the exception thrown, "" when the function returns normally.
Outcome(d, error, resp, mats, reads, writes, ext) ==
    [disk |-> d, error |-> error, resp |-> resp, mats |-> mats,
     reads |-> reads, writes |-> writes, ext |-> ext]

\* Lines 148-159: the preview is the watermarked raster with a dimmed box and
\* two lines of text drawn on it.  The box is skipped when rows < 100 and the
\* text, anchored at (30, 40) and (30, 80), falls outside a raster of at most
\* 30 columns; every raster of InputRasters has fewer than 100 rows and at most
\* 25 columns.
RenderPreview(mat) == mat

\* Lines 177-182: Canny with thresholds 100/200 on a raster whose samples differ
\* by at most one level finds no edge, so the edge map is black; the caption,
\* anchored at (30, 50), falls outside these rasters.
EdgePreview(img) == Flat(img.rows, img.cols, <<0, 0, 0>>)

processWatermark(signed, d, inputPath, outputPath, watermarkText, writeOk, previewOk) ==
    LET img         == d[inputPath]
        e           == EmbedInMemory(signed, img, watermarkText)
        mats        == [decoded |-> img, img |-> e.img,
                        watermarked_full |-> e.watermarked_full, bits |-> e.bits]
        previewPath == PreviewPathOf(outputPath)
        d1          == [d EXCEPT ![outputPath] = e.watermarked_full]
        d2          == [d1 EXCEPT ![previewPath] = RenderPreview(e.watermarked_full)]
    IN  IF img = EmptyMat
        THEN Outcome(d, "cannot read image", ErrorResp(""),
                     [NoMats EXCEPT !.decoded = img], {inputPath}, {}, NoExt)
        ELSE IF e.error # ""
        THEN Outcome(d, e.error, ErrorResp(""), mats, {inputPath}, {}, NoExt)
        ELSE IF ~writeOk
        THEN Outcome(d, "save failed", ErrorResp(""), mats, {inputPath}, {}, NoExt)
        ELSE IF ~previewOk
        THEN Outcome(d1, "preview save failed", ErrorResp(""), mats,
                     {inputPath}, {outputPath}, NoExt)
        ELSE Outcome(d2, "", WatermarkResp(previewPath, watermarkText), mats,
                     {inputPath}, {outputPath, previewPath}, NoExt)

processForensics(d, inputPath, outputPath, writeOk, previewOk) ==
    LET img         == d[inputPath]
        preview_img == EdgePreview(img)
        mats        == [NoMats EXCEPT !.decoded = img, !.img = img]
        previewPath == PreviewPathOf(outputPath)
        d1          == [d EXCEPT ![outputPath] = preview_img]
        d2          == [d1 EXCEPT ![previewPath] = preview_img]
    IN  IF img = EmptyMat
        THEN Outcome(d, "cannot read image", ErrorResp(""),
                     [NoMats EXCEPT !.decoded = img], {inputPath}, {}, NoExt)
        ELSE IF ~writeOk
        THEN Outcome(d, "save failed", ErrorResp(""), mats, {inputPath}, {}, NoExt)
        ELSE IF ~previewOk
        THEN Outcome(d1, "save failed", ErrorResp(""), mats,
                     {inputPath}, {outputPath}, NoExt)
        ELSE Outcome(d2, "", ForensicsResp(previewPath), mats,
                     {inputPath}, {outputPath, previewPath}, NoExt)

processVerify(signed, d, inputPath) ==
    LET img == d[inputPath]
        x   == ExtractFrom(signed, img)
        mats == [NoMats EXCEPT !.decoded = img, !.img = img]
    IN  IF img = EmptyMat
        THEN Outcome(d, "cannot read image", ErrorResp(""),
                     [NoMats EXCEPT !.decoded = img], {inputPath}, {}, NoExt)
        ELSE Outcome(d, "", VerifyResp(x), mats, {inputPath}, {},
                     [len |-> x.len, reads |-> x.reads])

\* ------------------------------------------------------------------------
\* The /process handler (lines 305-347)
\* ------------------------------------------------------------------------
ProcessBegin ==
    /\ pc = "idle"
    /\ total_requests < MaxRequests
    /\ active_requests' = active_requests + 1
    /\ total_requests' = total_requests + 1
    /\ pc' = "process"
    /\ UNCHANGED <<charSigned, disk, failed_requests, last>>

\* The try block's result o for the request, then the catch block when o.error # "".
ProcessFinish(algo, inputPath, outputPath, wmText, o) ==
    /\ disk' = o.disk
    /\ IF o.error = ""
       THEN /\ last' = Done("process", algo, inputPath, outputPath, wmText, 200,
                            o.resp, o.mats, o.reads, o.writes, o.ext)
            /\ UNCHANGED failed_requests
       ELSE /\ last' = Done("process", algo, inputPath, outputPath, wmText, 500,
                            ErrorResp(o.error), o.mats, o.reads, o.writes, o.ext)
            /\ failed_requests' = failed_requests + 1
    /\ pc' = "process_end"
    /\ UNCHANGED <<charSigned, active_requests, total_requests>>

ProcessWatermark ==
    /\ pc = "process"
    /\ \E inputPath \in InputPaths, outputPath \in OutputPaths,
          body \in WatermarkData, io \in WriteOutcomes :
          LET wmText == BodyValue(body, DefaultWatermark)
          IN  ProcessFinish("watermark", inputPath, outputPath, wmText,
                  processWatermark(charSigned, disk, inputPath, outputPath, wmText,
                                   io[1], io[2]))

ProcessForensics ==
    /\ pc = "process"
    /\ \E inputPath \in InputPaths, outputPath \in OutputPaths, io \in WriteOutcomes :
          ProcessFinish("forensics", inputPath, outputPath, DefaultWatermark,
              processForensics(disk, inputPath, outputPath, io[1], io[2]))

ProcessUnknown ==
    /\ pc = "process"
    /\ \E algo \in Algorithms \ {"watermark", "forensics"},
          inputPath \in InputPaths, outputPath \in OutputPaths :
          ProcessFinish(algo, inputPath, outputPath, DefaultWatermark,
              Outcome(disk, "Unknown algorithm", ErrorResp(""), NoMats, {}, {}, NoExt))

\* json::parse fails, or a required key is missing or not a string.
ProcessBadBody ==
    /\ pc = "process"
    /\ ProcessFinish("", <<>>, <<>>, <<>>,
           Outcome(disk, "bad request body", ErrorResp(""), NoMats, {}, {}, NoExt))

\* The handler's exit without the gauge's Decrement.
ProcessEndNoDecrement ==
    /\ pc = "process_end"
    /\ pc' = "idle"
    /\ last' = Idle
    /\ UNCHANGED <<charSigned, disk, active_requests, total_requests, failed_requests>>

ProcessEnd ==
    /\ pc = "process_end"
    /\ active_requests' = active_requests - 1
    /\ pc' = "idle"
    /\ last' = Idle
    /\ UNCHANGED <<charSigned, disk, total_requests, failed_requests>>

\* ------------------------------------------------------------------------
\* The /verify handler (lines 350-381)
\* ------------------------------------------------------------------------
VerifyBegin ==
    /\ pc = "idle"
    /\ active_requests' = active_requests + 1
    /\ pc' = "verify"
    /\ UNCHANGED <<charSigned, disk, total_requests, failed_requests, last>>

VerifyFinish(inputPath, o) ==
    /\ last' = Done("verify", "", inputPath, <<>>, <<>>,
                    IF o.error = "" THEN 200 ELSE 500,
                    IF o.error = "" THEN o.resp ELSE ErrorResp(o.error),
                    o.mats, o.reads, o.writes, o.ext)
    /\ pc' = "verify_end"
    /\ UNCHANGED <<charSigned, disk, active_requests, total_requests, failed_requests>>

VerifyRun ==
    /\ pc = "verify"
    /\ \E inputPath \in InputPaths :
          VerifyFinish(inputPath, processVerify(charSigned, disk, inputPath))

VerifyBadBody ==
    /\ pc = "verify"
    /\ VerifyFinish(<<>>,
           Outcome(disk, "Required key 'inputPath' is missing.", ErrorResp(""),
                   NoMats, {}, {}, NoExt))

VerifyEnd ==
    /\ pc = "verify_end"
    /\ active_requests' = active_requests - 1
    /\ pc' = "idle"
    /\ last' = Idle
    /\ UNCHANGED <<charSigned, disk, total_requests, failed_requests>>

Next ==
        \/ ProcessBegin
        \/ ProcessWatermark
        \/ ProcessForensics
        \/ ProcessUnknown
        \/ ProcessBadBody
        \/ ProcessEnd
        \/ VerifyBegin
        \/ VerifyRun
        \/ VerifyBadBody
        \/ VerifyEnd

Spec == Init /\ [][Next]_vars

\* ------------------------------------------------------------------------
\* Vocabulary of the properties, read off the rasters directly
\* ------------------------------------------------------------------------
PixelCount(img) == img.rows * img.cols

\* The k-th pixel (k = 0, 1, ...) in row-major order.
PixelAt(img, k) == img.data[<<k \div img.cols, k % img.cols>>]

RowMajor(img, k) == <<k \div img.cols, k % img.cols>>

\* The byte whose bits, MSB first, are the carrier LSBs of pixels k .. k+7.
CarrierByte(img, k) ==
      128 * Lsb(PixelAt(img, k))     + 64 * Lsb(PixelAt(img, k + 1))
    +  32 * Lsb(PixelAt(img, k + 2)) + 16 * Lsb(PixelAt(img, k + 3))
    +   8 * Lsb(PixelAt(img, k + 4)) +  4 * Lsb(PixelAt(img, k + 5))
    +   2 * Lsb(PixelAt(img, k + 6)) +      Lsb(PixelAt(img, k + 7))

\* The length prefix is readable and valid.
ValidPrefix(img) ==
    /\ PixelCount(img) >= 8
    /\ CarrierByte(img, 0) >= 1
    /\ 8 + 8 * CarrierByte(img, 0) <= PixelCount(img)

\* The L characters that follow a valid prefix.
CarrierText(img) == [m \in 1..CarrierByte(img, 0) |-> CarrierByte(img, 8 * m)]

HasHeader(text) == Len(text) >= 4 /\ <<text[1], text[2], text[3], text[4]>> = <<35, 73, 83, 35>>

Printable(text) == \A k \in 1..Len(text) : text[k] >= 32 /\ text[k] <= 126

FramedBitLength(payload) == 8 + 8 * (4 + Len(payload))

\* An embed request has run to its response, on an input file that decoded.
EmbedEnded ==
    /\ pc = "process_end"
    /\ last.algorithm = "watermark"
    /\ last.decoded # EmptyMat

\* ... and the in-memory embedding was carried out.
Embedded == EmbedEnded /\ last.watermarked_full # EmptyMat

\* A verify request has run to its response, on an input file that decoded.
VerifyEnded ==
    /\ pc = "verify_end"
    /\ last.imreads # {}
    /\ last.decoded # EmptyMat

ExtractionOf(img, payload) ==
    LET x == ExtractFrom(charSigned, img)
    IN  x.success /\ x.extractedText = payload

\* ------------------------------------------------------------------------
\* C1
\* ------------------------------------------------------------------------
\* C1: round trip. For a printable payload of 1..251 characters and a decoded
\* raster with at least 8 + 8*(4 + len) pixels, whatever its contents, embed
\* produces a raster from which extract returns success and the payload; the
\* same holds of the file a successful embed request leaves at outputPath.
C1_RoundTrip ==
    ( /\ EmbedEnded
      /\ Printable(last.watermarkText)
      /\ Len(last.watermarkText) \in 1..251
      /\ PixelCount(last.decoded) >= FramedBitLength(last.watermarkText) )
    => /\ last.watermarked_full # EmptyMat
       /\ ExtractionOf(last.watermarked_full, last.watermarkText)
       /\ last.resp.success => ExtractionOf(disk[last.outputPath], last.watermarkText)

\* "ABC" embedded at exact capacity over a raster that carried another watermark.
C1_Witness ==
    /\ Embedded
    /\ last.watermarkText = <<65, 66, 67>>
    /\ PixelCount(last.decoded) = 64
    /\ ExtractFrom(charSigned, last.decoded).success
    /\ ExtractFrom(charSigned, last.decoded).extractedText # <<65, 66, 67>>
    /\ last.resp.success
    /\ ExtractionOf(disk[last.outputPath], <<65, 66, 67>>)

\* ------------------------------------------------------------------------
\* C2
\* ------------------------------------------------------------------------
CapacityFailure ==
    /\ last.resp.error = "image too small"
    /\ last.outputPath \notin last.imwrites
    /\ last.watermarked_full = EmptyMat

\* C2 as stated: embed fails with the capacity error, the destination unwritten,
\* exactly when the framed bit length exceeds height*width.
C2_AsStated ==
    EmbedEnded =>
        (CapacityFailure <=> FramedBitLength(last.watermarkText) > PixelCount(last.decoded))

\* C2 (amended): for a payload whose framed length 4 + len is at most 255, embed
\* fails with the capacity error, the destination unwritten, exactly when the
\* framed bit length exceeds height*width; otherwise the payload is embedded.
C2_CapacityBoundary ==
    (EmbedEnded /\ 4 + Len(last.watermarkText) <= 255) =>
        /\ CapacityFailure <=> FramedBitLength(last.watermarkText) > PixelCount(last.decoded)
        /\ ~CapacityFailure => last.watermarked_full # EmptyMat

\* "ABC" (64 bits) on the 7x9 raster: one pixel short.
C2_Witness ==
    /\ EmbedEnded
    /\ last.watermarkText = <<65, 66, 67>>
    /\ last.decoded.rows = 7 /\ last.decoded.cols = 9
    /\ CapacityFailure

\* ------------------------------------------------------------------------
\* C3
\* ------------------------------------------------------------------------
\* C3: an embed request with an empty payload, or with 4 + len > 255, fails with
\* the payload error and writes nothing; and an embedded frame's 8-bit length
\* prefix equals its framed character count.
C3_PayloadValidation ==
    /\ ( EmbedEnded /\ (Len(last.watermarkText) = 0 \/ 4 + Len(last.watermarkText) > 255) )
       => (last.resp.error = "invalid watermark" /\ last.imwrites = {})
    /\ Embedded => DecodeByte(last.bits, 0) = 4 + Len(last.watermarkText)

\* ------------------------------------------------------------------------
\* C4
\* ------------------------------------------------------------------------
\* C4: an embed request that ends in a failure response has persisted nothing at
\* the destination path.
C4_NoWriteOnFailure ==
    (pc = "process_end" /\ last.algorithm = "watermark" /\ ~last.resp.success)
    => last.outputPath \notin last.imwrites

\* ------------------------------------------------------------------------
\* C5
\* ------------------------------------------------------------------------
\* C5: with L the length prefix in the first 8 pixels: if L = 0 or 8 + 8L exceeds
\* height*width, extract returns success=false, confidence 0.0 and empty text and
\* reads only (each of) the first 8 pixels; otherwise it reads exactly the first
\* 8 + 8L pixels, each once, in row-major order.
C5_LengthPrefix ==
    VerifyEnded =>
        LET img == last.decoded
            n   == Len(last.pixelReads)
        IN  /\ \A k \in 1..n : last.pixelReads[k] = RowMajor(img, k - 1)
            /\ IF ValidPrefix(img)
               THEN n = 8 + 8 * CarrierByte(img, 0)
               ELSE /\ n = (IF PixelCount(img) < 8 THEN PixelCount(img) ELSE 8)
                    /\ ~last.resp.success
                    /\ last.resp.confidenceScore = 0
                    /\ last.resp.extractedText = <<>>

\* A prefix of 7 on the 7x9 raster: 64 bits claimed, 63 pixels.
C5_Witness ==
    /\ VerifyEnded
    /\ PixelCount(last.decoded) = 63
    /\ CarrierByte(last.decoded, 0) = 7
    /\ Len(last.pixelReads) = 8
    /\ last.resp.confidenceScore = 0

\* ------------------------------------------------------------------------
\* C6
\* ------------------------------------------------------------------------
\* C6: with a valid prefix, characters that do not start with "#IS#" give
\* success=false, empty text and confidence 0.1; success=true comes with
\* confidence 0.99 and only for characters that start with "#IS#"; every failed
\* extraction has confidence at most 0.1.
C6_ConfidenceFloor ==
    VerifyEnded =>
        /\ (ValidPrefix(last.decoded) /\ ~HasHeader(CarrierText(last.decoded)))
           => /\ ~last.resp.success
              /\ last.resp.extractedText = <<>>
              /\ last.resp.confidenceScore = 10
        /\ last.resp.success
           => /\ last.resp.confidenceScore = 99
              /\ ValidPrefix(last.decoded)
              /\ HasHeader(CarrierText(last.decoded))
        /\ ~last.resp.success => last.resp.confidenceScore <= 10

\* Five characters "$#IS#": a structured frame that does not start with the header.
C6_Witness ==
    /\ VerifyEnded
    /\ ValidPrefix(last.decoded)
    /\ CarrierText(last.decoded) = <<36, 35, 73, 83, 35>>
    /\ ~last.resp.success
    /\ last.resp.confidenceScore = 10

\* ------------------------------------------------------------------------
\* C7
\* ------------------------------------------------------------------------
\* C7: a successful forensics response reports the (riskLevel, score) pair of the
\* band its anomaly intensity falls in: Low/96, Medium/72 or High/45, and no
\* other score or pairing.
C7_ClassificationBands ==
    (pc = "process_end" /\ last.algorithm = "forensics" /\ last.resp.success)
    => <<last.resp.riskLevel, last.resp.score>>
           \in {<<"Low", 96>>, <<"Medium", 72>>, <<"High", 45>>}

\* ------------------------------------------------------------------------
\* C8
\* ------------------------------------------------------------------------
\* C8: embedding n bits sets the carrier LSB of the first n pixels (row-major) to
\* the stream bits and changes nothing else: not the upper 7 bits of those
\* samples, not the other channels, not a pixel of index >= n, not the
\* dimensions, and not the input raster, which stays as decoded.
C8_EmbedFrame ==
    Embedded =>
        LET src == last.decoded
            out == last.watermarked_full
            n   == Len(last.bits)
        IN  /\ n = FramedBitLength(last.watermarkText)
            /\ last.img = src
            /\ out.rows = src.rows /\ out.cols = src.cols
            /\ \A k \in 0..(PixelCount(src) - 1) :
                  LET a == PixelAt(src, k)
                      b == PixelAt(out, k)
                  IN  /\ b[2] = a[2] /\ b[3] = a[3]
                      /\ b[1] \div 2 = a[1] \div 2
                      /\ k < n => b[1] % 2 = (IF last.bits[k + 1] = "1" THEN 1 ELSE 0)
                      /\ k >= n => b = a

\* A 48-bit stream in a 64-pixel raster: some LSB changes, 16 pixels lie beyond.
C8_Witness ==
    /\ Embedded
    /\ Len(last.bits) = 48
    /\ PixelCount(last.decoded) = 64
    /\ last.watermarked_full # last.decoded

\* ------------------------------------------------------------------------
\* C9
\* ------------------------------------------------------------------------
\* C9: the extracted text holds only bytes in [32,126]; on success it has L - 4
\* characters, each the decoded byte when that is in [32,126] and '?' otherwise.
C9_Sanitized ==
    VerifyEnded =>
        /\ Printable(last.resp.extractedText)
        /\ last.resp.success =>
              LET raw == CarrierText(last.decoded)
                  txt == last.resp.extractedText
              IN  /\ Len(txt) = Len(raw) - 4
                  /\ \A k \in 1..Len(txt) :
                        txt[k] = (IF raw[k + 4] >= 32 /\ raw[k + 4] <= 126
                                  THEN raw[k + 4] ELSE 63)

\* Bytes 200, 10, 126 after the header come out as "??~".
C9_Witness ==
    /\ VerifyEnded
    /\ last.resp.success
    /\ CarrierText(last.decoded) = <<35, 73, 83, 35, 200, 10, 126>>
    /\ last.resp.extractedText = <<63, 63, 126>>

\* ------------------------------------------------------------------------
\* C10
\* ------------------------------------------------------------------------
UnknownEnded ==
    /\ pc = "process_end"
    /\ last.algorithm \in Algorithms \ {"watermark", "forensics"}

\* C10: a /process request with an unknown algorithm gets success=false with an
\* error, no image is read or written, the handler can return, and the
\* active-request gauge is back at its earlier value once it has.
C10_UnknownAlgorithm ==
    /\ UnknownEnded =>
          /\ ~last.resp.success
          /\ last.resp.keys = {"success", "error"}
          /\ last.resp.error = "Unknown algorithm"
          /\ last.status = 500
          /\ last.imreads = {} /\ last.imwrites = {}
          /\ active_requests = 1
          /\ ENABLED ProcessEnd
    /\ pc = "idle" => active_requests = 0

C10_Witness ==
    /\ UnknownEnded
    /\ last.algorithm = "blur"
    /\ last.status = 500

====
